---- MODULE Spec2Model ----
(***************************************************************************)
(* fastjsonrpc: the JSON-RPC 1.0/2.0 codec (fastjsonrpc/jsonrpc.py) and    *)
(* the HTTP client built on it (ReceiverProtocol, StringProducer, Proxy).  *)
(*                                                                         *)
(* Python values are tagged records [t |-> type, v |-> payload].  A float  *)
(* is held as its number of tenths (1.0 is 10, 2.0 is 20).  A dict is a    *)
(* function from key strings to values.  A wire text is a sequence of      *)
(* JSON tokens; json.dumps and json.loads convert between the two.         *)
(***************************************************************************)
EXTENDS Integers, Sequences, FiniteSets, TLC

VARIABLES
    phase,      \* codec scenario: which codec function ran last
    call,       \* the arguments the last encode function was called with
    wire,       \* the wire text produced by an encoder or taken off the network
    outcome,    \* what the last decode function returned or raised
    proxy,      \* the Proxy: its url and version
    calls,      \* the callRemote invocations made on the proxy, in order
    protocols   \* the ReceiverProtocol objects created so far

vars == <<phase, call, wire, outcome, proxy, calls, protocols>>

codecVars == <<phase, call, wire, outcome>>
clientVars == <<proxy, calls, protocols>>

----------------------------------------------------------------------------
(* Bounds of the model *)

\* longest argument list handed to encodeRequest
MaxArgs == 2
\* number of callRemote invocations in flight on one Proxy
MaxCalls == 2
\* largest number of body tokens one dataReceived call delivers
MaxChunk == 2

----------------------------------------------------------------------------
(* Python values *)

PyNone == [t |-> "None", v |-> "None"]
PyBool(b) == [t |-> "bool", v |-> b]
PyInt(n) == [t |-> "int", v |-> n]
PyFloat(tenths) == [t |-> "float", v |-> tenths]
PyStr(s) == [t |-> "str", v |-> s]
PyList(xs) == [t |-> "list", v |-> xs]
PyTuple(xs) == [t |-> "tuple", v |-> xs]
PyDict(f) == [t |-> "dict", v |-> f]
Failure(value) == [t |-> "Failure", v |-> value]

EmptyDict == <<>>

\* An exception object: its class, what str() of it gives, and the attributes
\* reading which does not raise AttributeError.
Exc(cls, text, attrs) == [cls |-> cls, text |-> text, attrs |-> attrs]

IsNumber(x) == x.t \in {"int", "float", "bool"}

\* the value of an int or a bool as an integer
Whole(x) == IF x.t = "bool" THEN (IF x.v THEN 1 ELSE 0) ELSE x.v

\* Python's == on two numbers
NumEq(a, b) ==
    CASE a.t = "float" /\ b.t = "float" -> a.v = b.v
      [] a.t = "float" -> a.v % 10 = 0 /\ a.v \div 10 = Whole(b)
      [] b.t = "float" -> b.v % 10 = 0 /\ b.v \div 10 = Whole(a)
      [] OTHER -> Whole(a) = Whole(b)

\* Python's ==
PyEq(a, b) ==
    IF IsNumber(a) /\ IsNumber(b) THEN NumEq(a, b)
    ELSE a.t = b.t /\ a.v = b.v

\* Python's truth value of an object
Truthy(x) ==
    CASE x.t = "None" -> FALSE
      [] x.t = "bool" -> x.v
      [] x.t \in {"int", "float"} -> x.v # 0
      [] x.t = "str" -> x.v # ""
      [] x.t = "list" -> Len(x.v) > 0
      [] x.t = "dict" -> DOMAIN x.v # {}
      [] OTHER -> TRUE

\* isinstance(x, types.StringTypes)
IsStringTypes(x) == x.t = "str"

\* isinstance(x, types.FloatType)
IsFloatType(x) == x.t = "float"

\* isinstance(x, (types.ListType, types.TupleType))
IsListOrTuple(x) == x.t \in {"list", "tuple"}

----------------------------------------------------------------------------
(* Module constants *)

VERSION_1 == PyFloat(10)
VERSION_2 == PyFloat(20)

PARSE_ERROR == -32700
INVALID_REQUEST == -32600
METHOD_NOT_FOUND == -32601
INVALID_PARAMS == -32602
INTERNAL_ERROR == -32603

ID_MIN == 1
ID_MAX == 2147483647

\* JSONRPCError.__init__(strerror, errno, data, id_, version)
JSONRPCError(strerror, errno, data, id_, version) ==
    Exc("JSONRPCError", "",
        [strerror |-> strerror, errno |-> errno, data |-> data,
         id_ |-> id_, version |-> version])

----------------------------------------------------------------------------
(* The json module: texts are token sequences *)

Tok(t, v) == [t |-> t, v |-> v]
LBRACE == Tok("{", "{")
RBRACE == Tok("}", "}")
LBRACK == Tok("[", "[")
RBRACK == Tok("]", "]")

\* the order in which a dict's keys are written; every key of the model's
\* dicts is one of these
KeyOrder ==
    <<"id", "jsonrpc", "method", "params", "result", "error",
      "code", "message", "data">>

RECURSIVE dumpsValue(_)
RECURSIVE dumpsItems(_)
RECURSIVE dumpsMembers(_, _)

dumpsItems(xs) ==
    IF xs = <<>> THEN <<>> ELSE dumpsValue(Head(xs)) \o dumpsItems(Tail(xs))

dumpsMembers(d, keys) ==
    IF keys = <<>> THEN <<>>
    ELSE <<Tok("key", Head(keys))>> \o dumpsValue(d[Head(keys)])
            \o dumpsMembers(d, Tail(keys))

dumpsValue(x) ==
    CASE x.t = "None" -> <<Tok("null", "null")>>
      [] x.t = "bool" -> <<IF x.v THEN Tok("true", "true") ELSE Tok("false", "false")>>
      [] x.t = "int" -> <<Tok("int", x.v)>>
      [] x.t = "float" -> <<Tok("real", x.v)>>
      [] x.t = "str" -> <<Tok("string", x.v)>>
      [] x.t = "list" -> <<LBRACK>> \o dumpsItems(x.v) \o <<RBRACK>>
      [] x.t = "dict" ->
            <<LBRACE>>
            \o dumpsMembers(x.v, SelectSeq(KeyOrder, LAMBDA k : k \in DOMAIN x.v))
            \o <<RBRACE>>

RECURSIVE Serializable(_)
Serializable(x) ==
    CASE x.t \in {"None", "bool", "int", "float", "str"} -> TRUE
      [] x.t = "list" -> \A i \in 1..Len(x.v) : Serializable(x.v[i])
      [] x.t = "dict" -> \A k \in DOMAIN x.v : Serializable(x.v[k])
      [] OTHER -> FALSE

\* json.dumps: the text, or TypeError for an object json cannot serialize
dumps(x) ==
    IF Serializable(x) THEN [ok |-> TRUE, text |-> dumpsValue(x)]
    ELSE [ok |-> FALSE, text |-> <<>>]

ParseFail == [ok |-> FALSE, val |-> PyNone, next |-> 0]
ParseOk(val, next) == [ok |-> TRUE, val |-> val, next |-> next]

RECURSIVE parseValue(_, _)
RECURSIVE parseItems(_, _, _)
RECURSIVE parseMembers(_, _, _)

parseItems(s, i, acc) ==
    IF i > Len(s) THEN ParseFail
    ELSE IF s[i] = RBRACK THEN ParseOk(PyList(acc), i + 1)
    ELSE LET r == parseValue(s, i)
         IN  IF r.ok THEN parseItems(s, r.next, Append(acc, r.val)) ELSE ParseFail

parseMembers(s, i, acc) ==
    IF i > Len(s) THEN ParseFail
    ELSE IF s[i] = RBRACE THEN ParseOk(PyDict(acc), i + 1)
    ELSE IF s[i].t = "key"
         THEN LET r == parseValue(s, i + 1)
              IN  IF r.ok
                  THEN parseMembers(s, r.next, (s[i].v :> r.val) @@ acc)
                  ELSE ParseFail
         ELSE ParseFail

parseValue(s, i) ==
    IF i > Len(s) THEN ParseFail
    ELSE
      CASE s[i].t = "null" -> ParseOk(PyNone, i + 1)
        [] s[i].t = "true" -> ParseOk(PyBool(TRUE), i + 1)
        [] s[i].t = "false" -> ParseOk(PyBool(FALSE), i + 1)
        [] s[i].t = "int" -> ParseOk(PyInt(s[i].v), i + 1)
        [] s[i].t = "real" -> ParseOk(PyFloat(s[i].v), i + 1)
        [] s[i].t = "string" -> ParseOk(PyStr(s[i].v), i + 1)
        [] s[i].t = "[" -> parseItems(s, i + 1, <<>>)
        [] s[i].t = "{" -> parseMembers(s, i + 1, EmptyDict)
        [] OTHER -> ParseFail

\* json.loads: the value, or ValueError for a text that is not one JSON document
loads(s) ==
    LET r == parseValue(s, 1)
    IN  IF r.ok /\ r.next = Len(s) + 1
        THEN [ok |-> TRUE, val |-> r.val]
        ELSE [ok |-> FALSE, val |-> PyNone]

----------------------------------------------------------------------------
(* Outcomes of a call: a returned value or a raised exception *)

NoExc == Exc("", "", EmptyDict)
Return(val) == [kind |-> "return", val |-> val, exc |-> NoExc]
Raise(exc) == [kind |-> "raise", val |-> PyNone, exc |-> exc]

\* the builtin float(): the literals it can read, in tenths
FloatLiterals == ("1.0" :> 10) @@ ("2.0" :> 20) @@ ("2" :> 20)

float(x) ==
    CASE x.t = "float" -> Return(x)
      [] x.t = "int" -> Return(PyFloat(10 * x.v))
      [] x.t = "str" ->
            IF x.v \in DOMAIN FloatLiterals
            THEN Return(PyFloat(FloatLiterals[x.v]))
            ELSE Raise(Exc("ValueError", "could not convert string to float", EmptyDict))
      [] OTHER -> Raise(Exc("TypeError", "float() argument must be a string or a number", EmptyDict))

\* the builtin str() of the values an error description takes
str(x) ==
    CASE x.t = "str" -> x.v
      [] x.t = "None" -> "None"
      [] x.t = "int" -> ToString(x.v)
      [] x.t = "bool" -> IF x.v THEN "True" ELSE "False"

\* random.randint(a, b): any integer of a..b; the model draws from a sample
RandomSample == {0, 1, 2147483647}
randint(a, b) == {n \in RandomSample : a <= n /\ n <= b}

----------------------------------------------------------------------------
(* fastjsonrpc/jsonrpc.py *)

\* encodeRequest forgetting the version field
encodeRequestNoVersion(method, args, id_, version, rnd) ==
    LET request0 == ("method" :> method) @@ ("params" :> args)
        request1 ==
            IF id_ # PyNone
            THEN ("id" :> (IF PyEq(id_, PyInt(0)) THEN PyInt(rnd) ELSE id_)) @@ request0
            ELSE request0
    IN  dumps(PyDict(request1))

\* encodeRequest testing "not id_" where the code tests "id_ == 0"
encodeRequestFalsyId(method, args, id_, version, rnd) ==
    LET request0 == ("method" :> method) @@ ("params" :> args)
        request1 ==
            IF id_ # PyNone
            THEN ("id" :> (IF ~Truthy(id_) THEN PyInt(rnd) ELSE id_)) @@ request0
            ELSE request0
        request2 ==
            IF PyEq(version, VERSION_2)
            THEN ("jsonrpc" :> PyStr("2.0")) @@ request1
            ELSE request1
    IN  dumps(PyDict(request2))

\* encodeRequest(method, args, id_, version); rnd is what random.randint gives
encodeRequest(method, args, id_, version, rnd) ==
    LET request0 == ("method" :> method) @@ ("params" :> args)
        request1 ==
            IF id_ # PyNone
            THEN ("id" :> (IF PyEq(id_, PyInt(0)) THEN PyInt(rnd) ELSE id_)) @@ request0
            ELSE request0
        request2 ==
            IF PyEq(version, VERSION_2)
            THEN ("jsonrpc" :> PyStr("2.0")) @@ request1
            ELSE request1
    IN  dumps(PyDict(request2))

\* decodeResponse testing the truth value of result where the code tests
\* "is not None"
decodeResponseTruthy(json_response) ==
    LET parsed == loads(json_response)
        response == parsed.val
    IN  IF ~parsed.ok \/ response.t # "dict"
        THEN Raise(Exc("ValueError", "No JSON object could be decoded", EmptyDict))
        ELSE IF "result" \in DOMAIN response.v /\ Truthy(response.v["result"])
        THEN Return(response.v["result"])
        ELSE IF "error" \in DOMAIN response.v /\ response.v["error"] # PyNone
        THEN Raise(Exc("Exception", "", "args" :> PyTuple(<<response.v["error"]>>)))
        ELSE Raise(Exc("ValueError", "Not a valid JSON-RPC response", EmptyDict))

\* decodeResponse(json_response)
decodeResponse(json_response) ==
    LET parsed == loads(json_response)
        response == parsed.val
        NotValid == Raise(Exc("ValueError", "Not a valid JSON-RPC response", EmptyDict))
        \* response[key] on an object that is no dict
        BadIndex == Raise(Exc("TypeError", "indices must be integers", EmptyDict))
    IN  IF ~parsed.ok
        THEN Raise(Exc("ValueError", "No JSON object could be decoded", EmptyDict))
        ELSE
          CASE response.t = "dict" ->
                 IF "result" \in DOMAIN response.v /\ response.v["result"] # PyNone
                 THEN Return(response.v["result"])
                 ELSE IF "error" \in DOMAIN response.v /\ response.v["error"] # PyNone
                 THEN Raise(Exc("Exception", "",
                                "args" :> PyTuple(<<response.v["error"]>>)))
                 ELSE NotValid
            [] response.t = "list" ->
                 \* 'result' in a list looks for an equal element
                 IF \E i \in 1..Len(response.v) :
                        response.v[i] \in {PyStr("result"), PyStr("error")}
                 THEN BadIndex
                 ELSE NotValid
            [] response.t = "str" ->
                 \* 'result' in a string is a substring test; the strings of the
                 \* model are single words
                 IF response.v \in {"result", "error"} THEN BadIndex ELSE NotValid
            [] OTHER ->
                 Raise(Exc("TypeError", "argument is not iterable", EmptyDict))

\* decodeRequest, lines 129-145: the body of the second try.  Gives the dict
\* as the body left it and the exception that ended it, if any.
validateRequest(decoded) ==
    LET Ended(d, e) == [raised |-> TRUE, decoded |-> d, exc |-> e]
        Invalid(msg) ==
            JSONRPCError(PyStr(msg), PyInt(INVALID_REQUEST), PyNone, PyNone, VERSION_1)
    IN  IF decoded.t # "dict"
        THEN \* 'jsonrpc' in decoded, decoded['jsonrpc'] on an object that is no dict
             Ended(decoded, Exc("TypeError", "not a dict", EmptyDict))
        ELSE
          LET d0 == decoded.v
              hasVersion == "jsonrpc" \in DOMAIN d0
          IN  IF hasVersion /\ ~(IsStringTypes(d0["jsonrpc"]) \/ IsFloatType(d0["jsonrpc"]))
              THEN Ended(decoded, Invalid("Invalid jsonrpc type"))
              ELSE IF hasVersion /\ float(d0["jsonrpc"]).kind = "raise"
              THEN Ended(decoded, float(d0["jsonrpc"]).exc)
              ELSE
                LET d1 == ("jsonrpc" :>
                             (IF hasVersion THEN float(d0["jsonrpc"]).val ELSE VERSION_1))
                          @@ d0
                IN  IF "method" \notin DOMAIN d1
                    THEN Ended(PyDict(d1), Exc("KeyError", "method", EmptyDict))
                    ELSE IF ~IsStringTypes(d1["method"])
                    THEN Ended(PyDict(d1), Invalid("Invalid method type"))
                    ELSE IF "params" \notin DOMAIN d1
                    THEN Ended(PyDict(d1), Exc("KeyError", "params", EmptyDict))
                    ELSE IF ~IsListOrTuple(d1["params"])
                    THEN Ended(PyDict(d1), Invalid("Invalid params type"))
                    ELSE [raised |-> FALSE, decoded |-> PyDict(d1), exc |-> NoExc]

\* decodeRequest, lines 147-158: the handler of JSONRPCError
addKnownInfo(e, decoded) ==
    LET d == decoded.v
    IN  IF "id" \in DOMAIN d /\ "jsonrpc" \in DOMAIN d
        THEN JSONRPCError(e.attrs["strerror"], e.attrs["errno"], PyNone,
                          d["id"], d["jsonrpc"])
        ELSE IF "id" \in DOMAIN d
        THEN JSONRPCError(e.attrs["strerror"], e.attrs["errno"], PyNone,
                          d["id"], VERSION_1)
        ELSE IF "jsonrpc" \in DOMAIN d
        THEN JSONRPCError(e.attrs["strerror"], e.attrs["errno"], PyNone,
                          PyNone, d["jsonrpc"])
        ELSE JSONRPCError(e.attrs["strerror"], e.attrs["errno"], PyNone,
                          PyNone, VERSION_1)

\* decodeRequest(request)
decodeRequest(request) ==
    LET parsed == loads(request)
    IN  IF ~parsed.ok
        THEN Raise(JSONRPCError(PyStr("Failed to parse JSON"), PyInt(PARSE_ERROR),
                                PyNone, PyNone, VERSION_1))
        ELSE
          LET r == validateRequest(parsed.val)
          IN  IF ~r.raised THEN Return(r.decoded)
              ELSE IF r.exc.cls = "JSONRPCError"
              THEN Raise(addKnownInfo(r.exc, r.decoded))
              ELSE Raise(r.exc)

\* encodeResponse.getErrorResponse(result)
getErrorResponse(result) ==
    LET value == result.v
        message ==
            IF "strerror" \in DOMAIN value.attrs
            THEN str(value.attrs["strerror"])
            ELSE value.text
        code ==
            IF value.cls = "TypeError" THEN PyInt(INVALID_PARAMS)
            ELSE IF "errno" \in DOMAIN value.attrs THEN value.attrs["errno"]
            ELSE PyInt(INTERNAL_ERROR)
        error_result == ("message" :> PyStr(message)) @@ ("code" :> code)
    IN  IF "data" \in DOMAIN value.attrs /\ value.attrs["data"] # PyNone
        THEN PyDict(("data" :> value.attrs["data"]) @@ error_result)
        ELSE PyDict(error_result)

\* encodeResponse writing the unused field as null for version 2 as well
encodeResponseAlwaysBoth(result, id_, version) ==
    LET error_result ==
            IF result.t = "Failure" THEN getErrorResponse(result) ELSE PyNone
        response0 == "id" :> id_
        response1 ==
            IF PyEq(version, VERSION_2)
            THEN ("jsonrpc" :> version) @@ response0
            ELSE response0
        response2 ==
            IF Truthy(error_result)
            THEN ("error" :> error_result) @@ ("result" :> PyNone) @@ response1
            ELSE ("result" :> result) @@ ("error" :> PyNone) @@ response1
    IN  dumps(PyDict(response2))

\* encodeResponse(result, id_, version)
encodeResponse(result, id_, version) ==
    LET error_result ==
            IF result.t = "Failure" THEN getErrorResponse(result) ELSE PyNone
        response0 == "id" :> id_
        response1 ==
            IF PyEq(version, VERSION_2)
            THEN ("jsonrpc" :> version) @@ response0
            ELSE response0
        response2 ==
            IF Truthy(error_result)
            THEN IF PyEq(version, VERSION_1)
                 THEN ("error" :> error_result) @@ ("result" :> PyNone) @@ response1
                 ELSE ("error" :> error_result) @@ response1
            ELSE IF PyEq(version, VERSION_1)
                 THEN ("result" :> result) @@ ("error" :> PyNone) @@ response1
                 ELSE ("result" :> result) @@ response1
    IN  dumps(PyDict(response2))

----------------------------------------------------------------------------
(* The inputs the model draws from *)

Absent == [t |-> "absent", v |-> "absent"]

\* the dict holding the fields of f that are not Absent
MakeDict(f) == PyDict([k \in {k \in DOMAIN f : f[k] # Absent} |-> f[k]])

RECURSIVE SeqsUpTo(_, _)
SeqsUpTo(S, n) ==
    IF n = 0 THEN {<<>>}
    ELSE LET shorter == SeqsUpTo(S, n - 1)
         IN  shorter \cup {Append(q, x) : q \in shorter, x \in S}

Methods == {"add", "echo"}
ArgValues == {PyInt(1), PyStr("a"), PyList(<<PyNone>>)}
ArgLists == {PyList(q) : q \in SeqsUpTo(ArgValues, MaxArgs)}
Ids ==
    {PyNone, PyInt(0), PyInt(1), PyInt(7), PyInt(-1), PyInt(2147483647),
     PyStr("abc"), PyStr("")}
Versions == {VERSION_1, VERSION_2, PyInt(2), PyFloat(30)}

\* texts that are no JSON document
GarbageTexts ==
    {<<>>, <<LBRACE>>, <<Tok("junk", "not json")>>, <<Tok("int", 1), Tok("int", 2)>>,
     <<LBRACE, Tok("key", "method"), RBRACE>>}

\* JSON documents that are no object
NonDictDocs ==
    {PyInt(5), PyNone, PyStr("result"), PyStr("jsonrpc"),
     PyList(<<PyStr("jsonrpc")>>), PyList(<<PyStr("result")>>), PyList(<<>>)}

JsonrpcFields ==
    {Absent, PyStr("2.0"), PyStr("1.0"), PyStr("abc"), PyFloat(20), PyInt(2),
     PyNone, PyList(<<PyFloat(20)>>)}
MethodFields == {Absent, PyStr("add"), PyInt(5), PyNone}
ParamsFields ==
    {Absent, PyList(<<>>), PyList(<<PyInt(1)>>), PyDict(EmptyDict),
     PyDict("data" :> PyInt(1)), PyStr("p")}
IdFields == {Absent, PyInt(7), PyStr("abc"), PyNone}

RequestDocs ==
    {MakeDict([jsonrpc |-> j, method |-> m, params |-> p, id |-> i]) :
        j \in JsonrpcFields, m \in MethodFields, p \in ParamsFields, i \in IdFields}

RequestTexts ==
    GarbageTexts \cup {dumpsValue(d) : d \in RequestDocs \cup NonDictDocs}

Payloads ==
    {PyInt(42), PyNone, PyInt(0), PyStr(""), PyStr("ok"), PyBool(FALSE),
     PyList(<<>>), PyList(<<PyInt(1)>>)}

\* the exception a Failure wraps: a TypeError or not, and which of strerror,
\* errno and data it exposes (IOError('boom') exposes strerror and errno, both
\* None; JSONRPCError exposes all three)
FailureValues ==
    {Exc(cls, "boom", MakeDict([strerror |-> s, errno |-> e, data |-> d]).v) :
        cls \in {"TypeError", "Exception"},
        s \in {Absent, PyStr("bad"), PyNone},
        e \in {Absent, PyInt(METHOD_NOT_FOUND), PyInt(5), PyNone},
        d \in {Absent, PyNone, PyStr("detail")}}

Results == Payloads \cup {Failure(value) : value \in FailureValues}
ResponseIds == {PyInt(1), PyNone, PyStr("abc")}
ResponseVersions == {VERSION_1, VERSION_2}

ErrorFields ==
    {Absent, PyNone, PyStr("err"), PyDict(EmptyDict),
     PyDict(("code" :> PyInt(METHOD_NOT_FOUND)) @@ ("message" :> PyStr("no such method")))}
ResultFields == {Absent, PyNone, PyInt(42), PyInt(0), PyStr("")}

ResponseDocs ==
    {MakeDict([result |-> r, error |-> e, id |-> i, jsonrpc |-> j]) :
        r \in ResultFields, e \in ErrorFields, i \in {Absent, PyInt(1)},
        j \in {Absent, PyFloat(20)}}

ResponseTexts ==
    GarbageTexts \cup {dumpsValue(d) : d \in ResponseDocs \cup NonDictDocs}

----------------------------------------------------------------------------
(* fastjsonrpc/client.py: ReceiverProtocol, StringProducer, Proxy *)

\* a Deferred: how many times it was fired, and with what
Deferred == [called |-> 0, result |-> <<>>]

\* Deferred.callback(result)
callback(d, result) == [called |-> d.called + 1, result |-> result]

\* ReceiverProtocol.__init__(finished)
ReceiverProtocol(finished) == [body |-> <<>>, finished |-> finished]

\* ReceiverProtocol.dataReceived prepending the chunk
dataReceivedPrepend(rp, data) == [rp EXCEPT !.body = data \o rp.body]

\* ReceiverProtocol.dataReceived(data)
dataReceived(rp, data) == [rp EXCEPT !.body = rp.body \o data]

\* ReceiverProtocol.connectionLost(reason)
connectionLost(rp) == [rp EXCEPT !.finished = callback(rp.finished, rp.body)]

\* StringProducer.__init__(body)
StringProducer(body) == [body |-> body, length |-> Len(body)]

\* Proxy.__init__(url, version)
Proxy(url, version) == [url |-> url, version |-> version]

\* Proxy.bodyFromResponse keeping one ReceiverProtocol for all responses
bodyFromResponseShared(heap) ==
    IF heap = <<>>
    THEN [heap |-> <<ReceiverProtocol(Deferred)>>, ref |-> 1]
    ELSE [heap |-> heap, ref |-> 1]

\* Proxy.bodyFromResponse(response): a new ReceiverProtocol on a new Deferred;
\* gives the objects that exist after it and which of them is the new one
bodyFromResponse(heap) ==
    [heap |-> Append(heap, ReceiverProtocol(Deferred)), ref |-> Len(heap) + 1]

----------------------------------------------------------------------------
(* The codec, one function call at a time *)

NoCall == [fn |-> "none"]
NoOutcome == [kind |-> "none", val |-> PyNone, exc |-> NoExc]
\* a caller encodes a request
CallEncodeRequest ==
    /\ phase = "idle"
    /\ \E method \in Methods, args \in ArgLists, id_ \in Ids, version \in Versions :
         \E rnd \in randint(ID_MIN, ID_MAX) :
            LET r == encodeRequest(PyStr(method), args, id_, version, rnd)
            IN  /\ r.ok
                /\ call' = [fn |-> "encodeRequest", method |-> PyStr(method),
                            args |-> args, id_ |-> id_, version |-> version]
                /\ wire' = r.text
                /\ phase' = "request"
    /\ UNCHANGED <<outcome, clientVars>>

\* a request text arrives from the network
ReceiveRequest ==
    /\ phase = "idle"
    /\ \E text \in RequestTexts :
         /\ wire' = text
         /\ call' = [fn |-> "network"]
         /\ phase' = "request"
    /\ UNCHANGED <<outcome, clientVars>>

\* the request text is decoded
CallDecodeRequest ==
    /\ phase = "request"
    /\ outcome' = decodeRequest(wire)
    /\ phase' = "requestDecoded"
    /\ UNCHANGED <<call, wire, clientVars>>

\* a server encodes what the method returned
CallEncodeResponse ==
    /\ phase = "idle"
    /\ \E result \in Results, id_ \in ResponseIds, version \in ResponseVersions :
         LET r == encodeResponse(result, id_, version)
         IN  /\ r.ok
             /\ call' = [fn |-> "encodeResponse", result |-> result,
                         id_ |-> id_, version |-> version]
             /\ wire' = r.text
             /\ phase' = "response"
    /\ UNCHANGED <<outcome, clientVars>>

\* a response text arrives from the network
ReceiveResponse ==
    /\ phase = "idle"
    /\ \E text \in ResponseTexts :
         /\ wire' = text
         /\ call' = [fn |-> "network"]
         /\ phase' = "response"
    /\ UNCHANGED <<outcome, clientVars>>

\* the response text is decoded
CallDecodeResponse ==
    /\ phase = "response"
    /\ outcome' = decodeResponse(wire)
    /\ phase' = "responseDecoded"
    /\ UNCHANGED <<call, wire, clientVars>>

Init ==
    /\ phase = "idle"
    /\ call = NoCall
    /\ wire = <<>>
    /\ outcome = NoOutcome
    /\ \E version \in ResponseVersions : proxy = Proxy("http://example.org/abcdef", version)
    /\ calls = <<>>
    /\ protocols = <<>>

Next ==
    \/ CallEncodeRequest
    \/ ReceiveRequest
    \/ CallDecodeRequest
    \/ CallEncodeResponse
    \/ ReceiveResponse
    \/ CallDecodeResponse

Spec == Init /\ [][Next]_vars

----------------------------------------------------------------------------
(* The client: calls on one Proxy *)

\* what a server may send as the body of an HTTP response
ResponseBodies ==
    {dumpsValue(PyDict("result" :> PyInt(42))),
     dumpsValue(PyDict("error" :> PyStr("err"))),
     <<LBRACE>>,
     <<>>}

\* Proxy.callRemote(method, *args): the request is encoded and handed to the
\* HTTP agent in a StringProducer
CallRemote ==
    /\ Len(calls) < MaxCalls
    /\ \E rnd \in randint(ID_MIN, ID_MAX) :
         LET r == encodeRequest(PyStr("echo"), PyList(<<PyInt(1)>>), PyInt(0),
                                proxy.version, rnd)
         IN  /\ r.ok
             /\ calls' = Append(calls,
                    [stage |-> "sent", producer |-> StringProducer(r.text),
                     response |-> <<>>, delivered |-> <<>>, rp |-> 0,
                     result |-> NoOutcome])
    /\ UNCHANGED <<codecVars, proxy, protocols>>

\* the HTTP response of call i arrives: bodyFromResponse attaches a
\* ReceiverProtocol to its body
ResponseReceived(i) ==
    /\ calls[i].stage = "sent"
    /\ \E body \in ResponseBodies :
         LET r == bodyFromResponse(protocols)
         IN  /\ protocols' = r.heap
             /\ calls' = [calls EXCEPT ![i].stage = "receiving",
                                       ![i].response = body,
                                       ![i].rp = r.ref]
    /\ UNCHANGED <<codecVars, proxy>>

\* the HTTP request of call i fails: the failure is the call's result as it is
RequestFailed(i) ==
    /\ calls[i].stage = "sent"
    /\ calls' = [calls EXCEPT ![i].stage = "failed",
                              ![i].result = Raise(Exc("ConnectionRefusedError", "", EmptyDict))]
    /\ UNCHANGED <<codecVars, proxy, protocols>>

\* the transport delivers the next n tokens of the body of call i's response
DeliverChunk(i, n) ==
    /\ calls[i].stage = "receiving"
    /\ Len(calls[i].delivered) + n <= Len(calls[i].response)
    /\ LET from == Len(calls[i].delivered) + 1
           data == SubSeq(calls[i].response, from, from + n - 1)
       IN  /\ protocols' = [protocols EXCEPT
                              ![calls[i].rp] = dataReceived(protocols[calls[i].rp], data)]
           /\ calls' = [calls EXCEPT ![i].delivered = calls[i].delivered \o data]
    /\ UNCHANGED <<codecVars, proxy>>

\* the body of call i's response ends: connectionLost fires finished, whose
\* callback chain decodes the body into the call's result
StreamEnd(i) ==
    /\ calls[i].stage = "receiving"
    /\ Len(calls[i].delivered) = Len(calls[i].response)
    /\ LET rp == connectionLost(protocols[calls[i].rp])
       IN  /\ protocols' = [protocols EXCEPT ![calls[i].rp] = rp]
           /\ calls' = [calls EXCEPT ![i].stage = "done",
                                     ![i].result = decodeResponse(rp.finished.result)]
    /\ UNCHANGED <<codecVars, proxy>>

NextClient ==
    \/ CallRemote
    \/ \E i \in 1..Len(calls) : ResponseReceived(i)
    \/ \E i \in 1..Len(calls) : RequestFailed(i)
    \/ \E i \in 1..Len(calls), n \in 1..MaxChunk : DeliverChunk(i, n)
    \/ \E i \in 1..Len(calls) : StreamEnd(i)

SpecClient == Init /\ [][NextClient]_vars

----------------------------------------------------------------------------
(* Properties of the codec *)

\* the value of field k of a JSON document, Absent when it has none
Field(doc, k) == IF doc.t = "dict" /\ k \in DOMAIN doc.v THEN doc.v[k] ELSE Absent

IsRPCError(o, code) ==
    /\ o.kind = "raise"
    /\ o.exc.cls = "JSONRPCError"
    /\ o.exc.attrs["errno"] = PyInt(code)

\* the request shapes the specification calls invalid
InvalidRequestShape(doc) ==
    \/ Field(doc, "jsonrpc") # Absent /\ Field(doc, "jsonrpc").t \notin {"str", "int", "float"}
    \/ Field(doc, "method").t # "str"
    \/ Field(doc, "params").t # "list"

\* C1: every wire text makes decodeRequest either fail with PARSE_ERROR, with
\* no id and no version (the text is no JSON), or fail with INVALID_REQUEST
\* (jsonrpc is no text or number, method no text, or params no sequence), or
\* return the request with a float version, 1.0 when jsonrpc is absent; it
\* never fails with anything but an RPCError.
C1_DecodeRequestOutcomes ==
    phase = "requestDecoded" =>
        LET parsed == loads(wire)
        IN  IF ~parsed.ok
            THEN /\ IsRPCError(outcome, PARSE_ERROR)
                 /\ outcome.exc.attrs["id_"] = PyNone
                 /\ outcome.exc.attrs["version"] = VERSION_1
            ELSE IF InvalidRequestShape(parsed.val)
            THEN IsRPCError(outcome, INVALID_REQUEST)
            ELSE /\ outcome.kind = "return"
                 /\ Field(outcome.val, "jsonrpc").t = "float"
                 /\ Field(parsed.val, "jsonrpc") = Absent
                        => Field(outcome.val, "jsonrpc") = VERSION_1

\* C2: an INVALID_REQUEST failure of decodeRequest carries the request's id
\* when the request has one and no id otherwise, and the float of the request's
\* jsonrpc field when that field is present and valid; when the field is absent
\* or invalid the error keeps its default version 1.0.
C2_InvalidRequestContext ==
    (phase = "requestDecoded" /\ IsRPCError(outcome, INVALID_REQUEST)) =>
        LET doc == loads(wire).val
            id == Field(doc, "id")
            jsonrpc == Field(doc, "jsonrpc")
        IN  /\ outcome.exc.attrs["id_"] = (IF id = Absent THEN PyNone ELSE id)
            /\ outcome.exc.attrs["version"] =
                 (IF jsonrpc # Absent /\ jsonrpc.t \in {"str", "int", "float"}
                     /\ float(jsonrpc).kind = "return"
                  THEN float(jsonrpc).val
                  ELSE VERSION_1)

\* C3: a request encoded with a method, an argument list, version 1.0 or 2.0
\* and an id that is neither None nor 0 decodes to that method, those
\* arguments, that id and that version as a float.
C3_RequestRoundTrip ==
    ( /\ phase = "requestDecoded"
      /\ call.fn = "encodeRequest"
      /\ call.id_ # PyNone
      /\ ~PyEq(call.id_, PyInt(0))
      /\ call.version \in {VERSION_1, VERSION_2} ) =>
        /\ outcome.kind = "return"
        /\ Field(outcome.val, "method") = call.method
        /\ Field(outcome.val, "params") = call.args
        /\ Field(outcome.val, "id") = call.id_
        /\ Field(outcome.val, "jsonrpc") = call.version

C3_Witness ==
    /\ phase = "requestDecoded"
    /\ call.fn = "encodeRequest"
    /\ call.id_ = PyStr("abc")
    /\ call.version = VERSION_2
    /\ Len(call.args.v) = 2
    /\ outcome.kind = "return"
    /\ Field(outcome.val, "jsonrpc") = PyFloat(20)

\* C4: an encoded request has no id field when the id supplied is None, an
\* integer id in [1, 2^31-1] when it is 0, and the supplied id otherwise.
C4_RequestId ==
    (phase = "request" /\ call.fn = "encodeRequest") =>
        LET id == Field(loads(wire).val, "id")
        IN  IF call.id_ = PyNone THEN id = Absent
            ELSE IF call.id_ = PyInt(0)
            THEN id.t = "int" /\ 1 <= id.v /\ id.v <= 2147483647
            ELSE id = call.id_

C4_Witness ==
    /\ phase = "request"
    /\ call.fn = "encodeRequest"
    /\ call.id_ = PyInt(0)
    /\ Field(loads(wire).val, "id") = PyInt(2147483647)

\* C5 as stated: a version 1.0 response has the result and the error key,
\* exactly one of them non-null, and no jsonrpc field; a version 2.0 response
\* has exactly one of the two keys (result for a payload, error for a
\* failure), the jsonrpc field and the id.
C5_ExactlyOneNonNull ==
    (phase = "response" /\ call.fn = "encodeResponse") =>
        LET doc == loads(wire).val
            result == Field(doc, "result")
            error == Field(doc, "error")
        IN  /\ call.version = VERSION_1 =>
                /\ result # Absent /\ error # Absent
                /\ (result # PyNone) # (error # PyNone)
                /\ Field(doc, "jsonrpc") = Absent
            /\ call.version = VERSION_2 =>
                /\ (result # Absent) # (error # Absent)
                /\ (result # Absent) <=> (call.result.t # "Failure")
                /\ Field(doc, "jsonrpc") # Absent
                /\ Field(doc, "id") = call.id_

\* C5 amended: a version 1.0 response has the result and the error key and no
\* jsonrpc field; for a failure the error is non-null and the result null, for
\* a payload the error is null and the result is the payload, so both are null
\* when the payload is null.  Version 2.0 is as stated.
C5_ResponseFraming ==
    (phase = "response" /\ call.fn = "encodeResponse") =>
        LET doc == loads(wire).val
            result == Field(doc, "result")
            error == Field(doc, "error")
        IN  /\ call.version = VERSION_1 =>
                /\ result # Absent /\ error # Absent
                /\ IF call.result.t = "Failure"
                   THEN error.t = "dict" /\ result = PyNone
                   ELSE error = PyNone /\ result = call.result
                /\ Field(doc, "jsonrpc") = Absent
            /\ call.version = VERSION_2 =>
                /\ (result # Absent) # (error # Absent)
                /\ (result # Absent) <=> (call.result.t # "Failure")
                /\ Field(doc, "jsonrpc") # Absent
                /\ Field(doc, "id") = call.id_

C5_Witness ==
    /\ phase = "response"
    /\ call.fn = "encodeResponse"
    /\ call.version = VERSION_1
    /\ call.result = PyNone
    /\ Field(loads(wire).val, "result") = PyNone
    /\ Field(loads(wire).val, "error") = PyNone

\* C6: the error body of an encoded failure has code INVALID_PARAMS for a
\* TypeError, else the failure's own errno when it has one, else
\* INTERNAL_ERROR; the code is an integer; the body has a data key only for a
\* non-null data attribute.
C6_ErrorMapping ==
    (phase = "response" /\ call.fn = "encodeResponse" /\ call.result.t = "Failure") =>
        LET body == Field(loads(wire).val, "error")
            value == call.result.v
        IN  /\ body.t = "dict"
            /\ Field(body, "code") =
                 (IF value.cls = "TypeError" THEN PyInt(INVALID_PARAMS)
                  ELSE IF "errno" \in DOMAIN value.attrs THEN value.attrs["errno"]
                  ELSE PyInt(INTERNAL_ERROR))
            /\ Field(body, "code").t = "int"
            /\ Field(body, "data") # Absent <=>
                 ("data" \in DOMAIN value.attrs /\ value.attrs["data"] # PyNone)
            /\ Field(body, "data") # PyNone

C10_ResponseRoundTrip ==
    (phase = "responseDecoded" /\ call.fn = "encodeResponse") =>
        IF call.result.t # "Failure"
        THEN outcome.kind = "return" /\ outcome.val = call.result
        ELSE /\ outcome.kind = "raise"
             /\ outcome.exc.cls = "Exception"
             /\ outcome.exc.attrs["args"] = PyTuple(<<Field(loads(wire).val, "error")>>)

----------------------------------------------------------------------------
(* Properties of the client *)

\* C8: while the body of a response is arriving, its ReceiverProtocol has not
\* fired finished and holds the chunks delivered so far, concatenated in the
\* order they came; once the body has ended, finished has fired exactly once,
\* with the concatenation of all the chunks.
C8_BodyAccumulation ==
    \A i \in 1..Len(calls) :
        /\ calls[i].stage = "receiving" =>
             /\ protocols[calls[i].rp].finished.called = 0
             /\ protocols[calls[i].rp].body = calls[i].delivered
        /\ calls[i].stage = "done" =>
             /\ protocols[calls[i].rp].finished.called = 1
             /\ protocols[calls[i].rp].finished.result = calls[i].delivered

C8_Witness ==
    \E i \in 1..Len(calls) :
        /\ calls[i].stage = "done"
        /\ Len(calls[i].delivered) > MaxChunk
        /\ protocols[calls[i].rp].finished.called = 1
        /\ protocols[calls[i].rp].finished.result = calls[i].response

\* every finished call was resolved from its own response body, and no two
\* calls share a ReceiverProtocol
CallsIndependent ==
    /\ \A i \in 1..Len(calls) :
          calls[i].stage = "done" =>
             /\ protocols[calls[i].rp].finished.result = calls[i].response
             /\ calls[i].result = decodeResponse(calls[i].response)
    /\ \A i, j \in 1..Len(calls) :
          (i # j /\ calls[i].rp # 0) => calls[i].rp # calls[j].rp

\* C9: calls in flight on one Proxy are independent: however their chunks and
\* stream ends interleave, each call has its own ReceiverProtocol and is
\* resolved with the decoding of its own response body, whole and in order;
\* and no step changes the proxy's url and version.
C9_ConcurrentCalls == [](CallsIndependent) /\ [][proxy' = proxy]_vars

C9_Witness ==
    /\ Len(calls) = 2
    /\ calls[1].stage = "done" /\ calls[2].stage = "done"
    /\ calls[1].rp = 2 /\ calls[2].rp = 1
    /\ calls[1].result = Return(PyInt(42))
    /\ calls[2].result.kind = "raise" /\ calls[2].result.exc.cls = "Exception"

====
